---- MODULE Spec2Model ----
(***************************************************************************)
(* Model of the WEkEO Harmonized Data Access helper functions              *)
(* (hda_api_functions.ipynb) as driven by the workflow notebook            *)
(* 10_CAMS_European_air_quality_forecast_retrieve.ipynb.                   *)
(*                                                                         *)
(* Strings that the code computes on are sequences of code points; bytes   *)
(* are numbers 0..255.  Opaque strings (urls, file names, exception names) *)
(* are TLA+ strings or tuples.                                             *)
(***************************************************************************)
EXTENDS Integers, Sequences, FiniteSets, TLC

(***************************************************************************)
(* Bounds of the model.                                                    *)
(***************************************************************************)
MaxLen == 2        \* longest username / password drawn in SpecKey
MaxResults == 2    \* most result descriptors in one results listing
MaxPolls == 3      \* most status GETs issued by one polling call
MaxChunks == 2     \* most chunks streamed for one download

(***************************************************************************)
(* Program constants.                                                      *)
(***************************************************************************)
CONST_HTTP_SUCCESS_CODE == 200
HTTP_ERROR_CODE == 500

None == -1               \* Python's None where the code expects a number

(***************************************************************************)
(* generate_api_key: str.encode (UTF-8), base64.b64encode, bytes.decode.   *)
(***************************************************************************)
Colon == <<58>>

\* UTF-8 encoding of one code point below 2048.
Utf8Char(cp) ==
    IF cp < 128 THEN <<cp>>
    ELSE <<192 + (cp \div 64), 128 + (cp % 64)>>

RECURSIVE StrEncode(_)
StrEncode(s) ==
    IF s = <<>> THEN <<>>
    ELSE Utf8Char(Head(s)) \o StrEncode(Tail(s))

\* The standard Base64 alphabet (altchars=None), as ASCII codes.
B64Char(v) ==
    IF v < 26 THEN 65 + v
    ELSE IF v < 52 THEN 97 + (v - 26)
    ELSE IF v < 62 THEN 48 + (v - 52)
    ELSE IF v = 62 THEN 43
    ELSE 47

B64Pad == 61

RECURSIVE B64EncodeMut(_)
B64EncodeMut(bs) ==
    IF Len(bs) = 0 THEN <<>>
    ELSE IF Len(bs) = 1 THEN
        <<B64Char(bs[1] \div 4), B64Char((bs[1] % 4) * 16), B64Pad, B64Pad>>
    ELSE IF Len(bs) = 2 THEN
        <<B64Char(bs[1] \div 4),
          B64Char((bs[1] % 4) * 16 + (bs[2] \div 16)),
          B64Char((bs[2] % 16) * 4),
          B64Pad>>
    ELSE
        <<B64Char(bs[1] \div 4),
          B64Char((bs[1] % 4) * 16 + (bs[2] \div 16)),
          B64Char((bs[2] % 16) * 4 + (bs[3] \div 64)),
          B64Char(bs[3] % 32)>>
        \o B64EncodeMut(SubSeq(bs, 4, Len(bs)))

RECURSIVE B64Encode(_)
B64Encode(bs) ==
    IF Len(bs) = 0 THEN <<>>
    ELSE IF Len(bs) = 1 THEN
        <<B64Char(bs[1] \div 4), B64Char((bs[1] % 4) * 16), B64Pad, B64Pad>>
    ELSE IF Len(bs) = 2 THEN
        <<B64Char(bs[1] \div 4),
          B64Char((bs[1] % 4) * 16 + (bs[2] \div 16)),
          B64Char((bs[2] % 16) * 4),
          B64Pad>>
    ELSE
        <<B64Char(bs[1] \div 4),
          B64Char((bs[1] % 4) * 16 + (bs[2] \div 16)),
          B64Char((bs[2] % 16) * 4 + (bs[3] \div 64)),
          B64Char(bs[3] % 64)>>
        \o B64Encode(SubSeq(bs, 4, Len(bs)))

\* bytes.decode() of Base64 output: every byte is ASCII, one code point each.
AsciiDecode(bs) == bs

generate_api_key(user, pass) ==
    LET s == user \o Colon \o pass
    IN  AsciiDecode(B64Encode(StrEncode(s)))

(***************************************************************************)
(* The inverse conversions, used to state the round trip.                  *)
(***************************************************************************)
B64Value(c) ==
    IF c >= 65 /\ c <= 90 THEN c - 65
    ELSE IF c >= 97 /\ c <= 122 THEN c - 97 + 26
    ELSE IF c >= 48 /\ c <= 57 THEN c - 48 + 52
    ELSE IF c = 43 THEN 62
    ELSE 63

RECURSIVE B64Decode(_)
B64Decode(cs) ==
    IF Len(cs) < 4 THEN <<>>
    ELSE
        LET a == B64Value(cs[1])
            b == B64Value(cs[2])
            c == B64Value(cs[3])
            d == B64Value(cs[4])
            b1 == a * 4 + (b \div 16)
            b2 == (b % 16) * 16 + (c \div 4)
            b3 == (c % 4) * 64 + d
            rest == B64Decode(SubSeq(cs, 5, Len(cs)))
        IN  IF cs[3] = B64Pad THEN <<b1>>
            ELSE IF cs[4] = B64Pad THEN <<b1, b2>>
            ELSE <<b1, b2, b3>> \o rest

RECURSIVE Utf8Decode(_)
Utf8Decode(bs) ==
    IF bs = <<>> THEN <<>>
    ELSE IF bs[1] < 128 THEN <<bs[1]>> \o Utf8Decode(Tail(bs))
    ELSE <<(bs[1] - 192) * 64 + (bs[2] - 128)>> \o Utf8Decode(SubSeq(bs, 3, Len(bs)))

\* Credentials of the documented example, "wekeo-test" / "wekeo-test".
WekeoTest == <<119, 101, 107, 101, 111, 45, 116, 101, 115, 116>>
WekeoTestKey ==
    <<100, 50, 86, 114, 90, 87, 56, 116, 100, 71, 86, 122, 100, 68,
      112, 51, 90, 87, 116, 108, 98, 121, 49, 48, 90, 88, 78, 48>>

\* Code points drawn for usernames and passwords: 'w', ':', U+00E9, U+07FF.
Chars == {119, 58, 233, 2047}

StringsUpTo(n) == UNION {[1..k -> Chars] : k \in 0..n}
Credentials == StringsUpTo(MaxLen) \cup {WekeoTest}

VARIABLES
    username, password, api_key,   \* notebook globals of the credentials cell
    pc,                            \* position in the workflow / in the running function
    err,                           \* exception that ended the run and its source line, or NoError
    hda,                           \* hda_dict: a function whose domain is the set of keys
    dirs,                          \* directories that exist
    files,                         \* files that exist: path -> content (sequence of bytes)
    openFiles,                     \* paths with an open file handle
    inflight,                      \* HTTP requests issued and not yet answered
    reqLog,                        \* requests issued by the cell that is running or ran last
    tcAnswers,                     \* 'accepted' fields answered to acceptTandC, in order
    resp,                          \* local `response` of get_access_token / query_metadata
    status, ngets, pollLog,        \* polling frame: local status, GETs issued, answers received
    presp,                         \* polling frame: local `response`, <<>> while unbound
    i, order_ids, order_sizes,     \* loop locals of get_order_ids / download_data
    response,                      \* local `response` of get_order_ids: <<>> while unbound
    postLog,                       \* order POSTs issued so far, with their answers
    df, dl, elapsed, received,     \* downloadFile frame: arguments, counter, clock, stream so far
    r_status,                      \* status code of the download response, 0 before it arrives
    time_elapsed,                  \* value returned by downloadFile to download_data
    dlLog                          \* downloads attempted so far by download_data

vars ==
    <<username, password, api_key, pc, err, hda, dirs, files, openFiles, inflight,
      reqLog, tcAnswers, resp,
      status, ngets, pollLog, presp, i, order_ids, order_sizes, response, postLog,
      df, dl, elapsed, received, r_status, time_elapsed, dlLog>>

keyVars == <<username, password, api_key>>
sessionVars == <<hda, dirs>>
fsVars == <<files, openFiles>>
pollVars == <<status, ngets, pollLog, presp>>
orderVars == <<i, order_ids, order_sizes, response, postLog>>
dfVars == <<df, dl, elapsed, received, r_status, time_elapsed, dlLog>>

(***************************************************************************)
(* Dictionaries.                                                           *)
(***************************************************************************)
EmptyDict == [k \in {} |-> 0]
Has(d, k) == k \in DOMAIN d
Put(d, k, v) == [x \in (DOMAIN d) \cup {k} |-> IF x = k THEN v ELSE d[x]]

(***************************************************************************)
(* The transport: one blocking call of requests.get/post/put is a Send     *)
(* followed by the arrival of the answer.                                  *)
(***************************************************************************)
Request(method, url) == [method |-> method, url |-> url, headers |-> hda["headers"]]
Send(reqs, req) == reqs \cup {req}
AnswerMut(reqs, req) == reqs
Answer(reqs, req) == reqs \ {req}

StatusCodes == {CONST_HTTP_SUCCESS_CODE, HTTP_ERROR_CODE}

Last(s) == s[Len(s)]

\* A response of which only the status code is read.
HttpAnswer(code) == [status_code |-> code, status |-> "", orderId |-> <<>>]

NoError == [name |-> "none", line |-> 0]

NoFrame == [url |-> <<>>, directory |-> "", file_name |-> "", total_length |-> 0]

InitRest ==
    /\ pc = "cell_api_key"
    /\ err = NoError
    /\ hda = EmptyDict
    /\ dirs \in {{"./"}, {"./", "./data/"}}
    /\ files = EmptyDict
    /\ openFiles = {}
    /\ inflight = {}
    /\ reqLog = <<>>
    /\ tcAnswers = <<>>
    /\ status = ""
    /\ ngets = 0
    /\ pollLog = <<>>
    /\ presp = <<>>
    /\ i = 0
    /\ order_ids = <<>>
    /\ order_sizes = <<>>
    /\ response = <<>>
    /\ resp = <<>>
    /\ postLog = <<>>
    /\ df = NoFrame
    /\ dl = 0
    /\ elapsed = 0
    /\ received = <<>>
    /\ r_status = 0
    /\ time_elapsed = None
    /\ dlLog = <<>>

\* The workflow notebook with the documented example credentials.
Init ==
    /\ username = WekeoTest
    /\ password = WekeoTest
    /\ api_key = <<>>
    /\ InitRest

\* The credentials cell alone, over all bounded usernames and passwords.
InitKey ==
    /\ username \in Credentials
    /\ password \in Credentials
    /\ api_key = <<>>
    /\ InitRest

\* An exception raised at a source line propagates to the notebook: the run stops.
Raise(e, line) ==
    /\ pc' = "halted"
    /\ err' = [name |-> e, line |-> line]

(***************************************************************************)
(* Cell: api_key = generate_api_key(user_name, password)                   *)
(***************************************************************************)
GenerateApiKey ==
    /\ pc = "cell_api_key"
    /\ api_key' = generate_api_key(username, password)
    /\ pc' = "cell_init"
    /\ UNCHANGED <<resp, tcAnswers, username, password, err, sessionVars, fsVars, inflight, reqLog,
                   pollVars, orderVars, dfVars>>

(***************************************************************************)
(* Cell: hda_dict = init(dataset_id, api_key, download_dir_path)           *)
(***************************************************************************)
Broker == "https://wekeo-broker.apps.mercator.dpi.wekeo.eu/databroker"
DatasetId == "EO:ECMWF:DAT:CAMS_EUROPE_AIR_QUALITY_FORECASTS"
DownloadDirs == {"./data/", "./"}

init(dataset_id, key, download_dir_path) ==
    [broker_endpoint |-> Broker,
     acceptTandC_address |-> <<Broker, "/termsaccepted/Copernicus_General_License">>,
     accessToken_address |-> <<Broker, "/gettoken">>,
     dataset_id |-> dataset_id,
     api_key |-> key,
     CONST_HTTP_SUCCESS_CODE |-> CONST_HTTP_SUCCESS_CODE,
     download_dir_path |-> download_dir_path]

\* if not os.path.exists(download_dir_path): os.makedirs(download_dir_path)
MakeDirsMut(ds, d) == ds
MakeDirs(ds, d) == IF d \notin ds THEN ds \cup {d} ELSE ds

InitCell ==
    /\ pc = "cell_init"
    /\ \E d \in DownloadDirs :
        /\ hda' = init(DatasetId, api_key, d)
        /\ dirs' = MakeDirs(dirs, d)
    /\ pc' = "cell_token"
    /\ UNCHANGED <<resp, tcAnswers, keyVars, err, fsVars, inflight, reqLog, pollVars, orderVars, dfVars>>

(***************************************************************************)
(* Cell: hda_dict = get_access_token(hda_dict)                             *)
(***************************************************************************)
Tokens == {"f44e9594"}

\* headers = {'Authorization': 'Basic ' + hda_dict['api_key']}
TokenRequest ==
    [method |-> "GET", url |-> hda["accessToken_address"],
     headers |-> [Authorization |-> <<"Basic ", hda["api_key"]>>]]

\* {'Authorization': 'Bearer ' + hda_dict["access_token"], 'Accept': 'application/json'}
BearerHeadersMut(d) ==
    [Authorization |-> <<"Basic ", d["api_key"]>>, Accept |-> "application/json"]
BearerHeaders(d) ==
    [Authorization |-> <<"Bearer ", d["access_token"]>>, Accept |-> "application/json"]

\* The token cell; it may be run again before the terms cell (the token
\* is valid for one hour only).
GetAccessToken_Send ==
    /\ pc \in {"cell_token", "cell_tandc"}
    /\ inflight' = Send(inflight, TokenRequest)
    /\ reqLog' = <<TokenRequest>>
    /\ pc' = "gat_wait"
    /\ UNCHANGED <<resp, tcAnswers, keyVars, err, sessionVars, fsVars, pollVars, orderVars, dfVars>>

GetAccessToken_Ok ==
    /\ pc = "gat_wait"
    /\ inflight' = Answer(inflight, TokenRequest)
    /\ reqLog' = reqLog
    /\ \E access_token \in Tokens :
         LET d1 == Put(hda, "access_token", access_token)
         IN  hda' = Put(d1, "headers", BearerHeaders(d1))
    /\ resp' = <<HttpAnswer(CONST_HTTP_SUCCESS_CODE)>>
    /\ pc' = "cell_tandc"
    /\ UNCHANGED <<tcAnswers, keyVars, err, dirs, fsVars, pollVars, orderVars, dfVars>>

GetAccessToken_FailMut ==
    /\ pc = "gat_wait"
    /\ inflight' = Answer(inflight, TokenRequest)
    /\ reqLog' = reqLog
    /\ resp' = <<HttpAnswer(HTTP_ERROR_CODE)>>
    /\ LET d1 == Put(hda, "access_token", "")
       IN  hda' = Put(d1, "headers", BearerHeaders(d1))
    /\ pc' = "cell_tandc"
    /\ UNCHANGED <<tcAnswers, keyVars, err, dirs, fsVars, pollVars, orderVars, dfVars>>

\* Non-success answer: the local access_token is never assigned.
GetAccessToken_Fail ==
    /\ pc = "gat_wait"
    /\ inflight' = Answer(inflight, TokenRequest)
    /\ reqLog' = reqLog
    /\ resp' = <<HttpAnswer(HTTP_ERROR_CODE)>>
    /\ Raise("UnboundLocalError", 203)
    /\ UNCHANGED <<tcAnswers, keyVars, sessionVars, fsVars, pollVars, orderVars, dfVars>>

(***************************************************************************)
(* hda_dict = query_metadata(hda_dict): not a cell of the workflow; the    *)
(* caller may run it once a token is held.                                 *)
(***************************************************************************)
\* Parsed bodies of the metadata endpoint.
MetadataBodies == {[datasetId |-> DatasetId]}

MetadataRequest ==
    Request("GET", <<hda["broker_endpoint"], "/querymetadata/", hda["dataset_id"]>>)

QueryMetadata_Send ==
    /\ pc = "cell_tandc"
    /\ inflight' = Send(inflight, MetadataRequest)
    /\ reqLog' = <<MetadataRequest>>
    /\ pc' = "qm_wait"
    /\ UNCHANGED <<resp, tcAnswers, keyVars, err, sessionVars, fsVars, pollVars, orderVars, dfVars>>

\* Success: parsedResponse = json.loads(response.text) is stored.
QueryMetadata_Ok ==
    /\ pc = "qm_wait"
    /\ inflight' = Answer(inflight, MetadataRequest)
    /\ reqLog' = reqLog
    /\ resp' = <<HttpAnswer(CONST_HTTP_SUCCESS_CODE)>>
    /\ \E parsedResponse \in MetadataBodies :
         hda' = Put(hda, "parsedResponse", parsedResponse)
    /\ pc' = "cell_tandc"
    /\ UNCHANGED <<tcAnswers, keyVars, err, dirs, fsVars, pollVars, orderVars, dfVars>>

\* Non-success answer: the local parsedResponse is never assigned.
QueryMetadata_Fail ==
    /\ pc = "qm_wait"
    /\ inflight' = Answer(inflight, MetadataRequest)
    /\ reqLog' = reqLog
    /\ resp' = <<HttpAnswer(HTTP_ERROR_CODE)>>
    /\ Raise("UnboundLocalError", 243)
    /\ UNCHANGED <<tcAnswers, keyVars, sessionVars, fsVars, pollVars, orderVars, dfVars>>

(***************************************************************************)
(* Cell: hda_dict = acceptTandC(hda_dict)                                  *)
(***************************************************************************)
TandCGet == Request("GET", hda["acceptTandC_address"])
TandCPut == Request("PUT", hda["acceptTandC_address"])

AcceptTandC_Send ==
    /\ pc = "cell_tandc"
    /\ inflight' = Send(inflight, TandCGet)
    /\ reqLog' = <<TandCGet>>
    /\ tcAnswers' = <<>>
    /\ pc' = "tc_wait_get"
    /\ UNCHANGED <<resp, keyVars, err, sessionVars, fsVars, pollVars, orderVars, dfVars>>

\* Parsed bodies of the terms endpoint: an acceptance state, or an error document.
TandCBodies == {[accepted |-> v] : v \in BOOLEAN} \cup {[message |-> "error"]}

\* if isTandCAccepted is False
NeedsPutMut(isTandCAccepted) == TRUE
NeedsPut(isTandCAccepted) == isTandCAccepted = FALSE

\* The GET says accepted: no PUT; the GET's body is parsed again and stored.
AcceptTandC_Accepted ==
    /\ pc = "tc_wait_get"
    /\ inflight' = Answer(inflight, TandCGet)
    /\ reqLog' = reqLog
    /\ \E body \in TandCBodies :
        /\ Has(body, "accepted")
        /\ ~NeedsPut(body["accepted"])
        /\ tcAnswers' = Append(tcAnswers, body)
        /\ hda' = Put(hda, "isTandCAccepted", body["accepted"])
    /\ pc' = "cell_job"
    /\ UNCHANGED <<resp, keyVars, err, dirs, fsVars, pollVars, orderVars, dfVars>>

\* The GET's body has no 'accepted' field.
AcceptTandC_GetKeyError ==
    /\ pc = "tc_wait_get"
    /\ inflight' = Answer(inflight, TandCGet)
    /\ reqLog' = reqLog
    /\ \E body \in TandCBodies :
        /\ ~Has(body, "accepted")
        /\ tcAnswers' = Append(tcAnswers, body)
    /\ Raise("KeyError", 273)
    /\ UNCHANGED <<resp, keyVars, sessionVars, fsVars, pollVars, orderVars, dfVars>>

\* The GET says not accepted: the PUT is issued.
AcceptTandC_Put ==
    /\ pc = "tc_wait_get"
    /\ \E body \in TandCBodies :
        /\ Has(body, "accepted")
        /\ NeedsPut(body["accepted"])
        /\ tcAnswers' = Append(tcAnswers, body)
    /\ inflight' = Send(Answer(inflight, TandCGet), TandCPut)
    /\ reqLog' = Append(reqLog, TandCPut)
    /\ pc' = "tc_wait_put"
    /\ UNCHANGED <<resp, keyVars, err, sessionVars, fsVars, pollVars, orderVars, dfVars>>

\* The PUT's body is parsed and stored.
AcceptTandC_PutAnswer ==
    /\ pc = "tc_wait_put"
    /\ inflight' = Answer(inflight, TandCPut)
    /\ reqLog' = reqLog
    /\ \E body \in TandCBodies :
        /\ Has(body, "accepted")
        /\ tcAnswers' = Append(tcAnswers, body)
        /\ hda' = Put(hda, "isTandCAccepted", body["accepted"])
    /\ pc' = "cell_job"
    /\ UNCHANGED <<resp, keyVars, err, dirs, fsVars, pollVars, orderVars, dfVars>>

\* The PUT's body has no 'accepted' field.
AcceptTandC_PutKeyError ==
    /\ pc = "tc_wait_put"
    /\ inflight' = Answer(inflight, TandCPut)
    /\ reqLog' = reqLog
    /\ \E body \in TandCBodies :
        /\ ~Has(body, "accepted")
        /\ tcAnswers' = Append(tcAnswers, body)
    /\ Raise("KeyError", 280)
    /\ UNCHANGED <<resp, keyVars, sessionVars, fsVars, pollVars, orderVars, dfVars>>

(***************************************************************************)
(* The polling loop shared by get_request_status and get_order_status.     *)
(***************************************************************************)
StatusStrings == {"running", "completed", "failed"}

\* What a status endpoint may answer: success with a status string, or an
\* HTTP error whose body the code does not read.
StatusAnswers ==
    {[status_code |-> CONST_HTTP_SUCCESS_CODE, status |-> s, orderId |-> <<>>] :
        s \in StatusStrings}
    \cup {[status_code |-> HTTP_ERROR_CODE, status |-> "", orderId |-> <<>>]}

\* while (status != "completed")
PollContinueMut(st) == st \notin {"completed", "failed"}
PollContinue(st) == st # "completed"

\* if (response.status_code == CONST_HTTP_SUCCESS_CODE): status = ...['status']
NextStatusMut(st, answer) ==
    IF answer.status_code = hda["CONST_HTTP_SUCCESS_CODE"] THEN answer.status ELSE "completed"
NextStatus(st, answer) ==
    IF answer.status_code = hda["CONST_HTTP_SUCCESS_CODE"] THEN answer.status ELSE st

(***************************************************************************)
(* Cell: hda_dict = get_job_id(hda_dict, data)                             *)
(***************************************************************************)
JobIds == {"uFTsuWya4"}

JobRequest == Request("POST", <<hda["broker_endpoint"], "/datarequest">>)

GetJobId_Send ==
    /\ pc = "cell_job"
    /\ inflight' = Send(inflight, JobRequest)
    /\ reqLog' = <<JobRequest>>
    /\ tcAnswers' = <<>>
    /\ pc' = "gji_wait"
    /\ UNCHANGED <<resp, keyVars, err, sessionVars, fsVars, pollVars, orderVars, dfVars>>

GetJobId_AnswerMut ==
    /\ pc = "gji_wait"
    /\ inflight' = Answer(inflight, JobRequest)
    /\ reqLog' = reqLog
    /\ \E code \in StatusCodes, id \in JobIds :
         LET job_id == IF code = hda["CONST_HTTP_SUCCESS_CODE"] THEN id ELSE ""
         IN  /\ hda' = Put(hda, "job_id", job_id)
             /\ pc' = IF job_id = "" THEN "cell_results" ELSE "grs_loop"
    /\ status' = "not started"
    /\ ngets' = 0
    /\ pollLog' = <<>>
    /\ presp' = <<>>
    /\ UNCHANGED <<resp, tcAnswers, keyVars, err, dirs, fsVars, orderVars, dfVars>>

\* The answer to the POST; then get_request_status(hda_dict) is entered.
GetJobId_Answer ==
    /\ pc = "gji_wait"
    /\ inflight' = Answer(inflight, JobRequest)
    /\ reqLog' = reqLog
    /\ \E code \in StatusCodes, id \in JobIds :
         LET job_id == IF code = hda["CONST_HTTP_SUCCESS_CODE"] THEN id ELSE ""
         IN  hda' = Put(hda, "job_id", job_id)
    /\ status' = "not started"
    /\ ngets' = 0
    /\ pollLog' = <<>>
    /\ presp' = <<>>
    /\ pc' = "grs_loop"
    /\ UNCHANGED <<resp, tcAnswers, keyVars, err, dirs, fsVars, orderVars, dfVars>>

(***************************************************************************)
(* get_request_status(hda_dict)                                            *)
(***************************************************************************)
JobStatusRequest ==
    Request("GET", <<hda["broker_endpoint"], "/datarequest/status/", hda["job_id"]>>)

GetRequestStatus_Send ==
    /\ pc = "grs_loop"
    /\ PollContinue(status)
    /\ ngets < MaxPolls
    /\ inflight' = Send(inflight, JobStatusRequest)
    /\ reqLog' = Append(reqLog, JobStatusRequest)
    /\ ngets' = ngets + 1
    /\ pc' = "grs_wait"
    /\ UNCHANGED <<resp, tcAnswers, keyVars, err, sessionVars, fsVars, status, pollLog, presp, orderVars, dfVars>>

GetRequestStatus_Answer ==
    /\ pc = "grs_wait"
    /\ inflight' = Answer(inflight, JobStatusRequest)
    /\ reqLog' = reqLog
    /\ \E answer \in StatusAnswers :
        /\ status' = NextStatus(status, answer)
        /\ pollLog' = Append(pollLog, answer)
        /\ presp' = <<answer>>
    /\ pc' = "grs_loop"
    /\ UNCHANGED <<resp, tcAnswers, keyVars, err, sessionVars, fsVars, ngets, orderVars, dfVars>>

GetRequestStatus_ReturnMut ==
    /\ pc = "grs_loop"
    /\ ~PollContinue(status) \/ ngets >= 2
    /\ pc' = "grs_ret"
    /\ UNCHANGED <<resp, tcAnswers, keyVars, err, sessionVars, fsVars, inflight, reqLog, pollVars, orderVars, dfVars>>

\* The loop ends: get_request_status returns to get_job_id.
GetRequestStatus_Return ==
    /\ pc = "grs_loop"
    /\ ~PollContinue(status)
    /\ pc' = "grs_ret"
    /\ UNCHANGED <<resp, tcAnswers, keyVars, err, sessionVars, fsVars, inflight, reqLog, pollVars, orderVars, dfVars>>

\* return hda_dict: the polling frame is gone.
GetJobId_Return ==
    /\ pc = "grs_ret"
    /\ status' = ""
    /\ ngets' = 0
    /\ pollLog' = <<>>
    /\ presp' = <<>>
    /\ pc' = "cell_results"
    /\ UNCHANGED <<resp, tcAnswers, keyVars, err, sessionVars, fsVars, inflight, reqLog, orderVars, dfVars>>

(***************************************************************************)
(* Cell: hda_dict = get_results_list(hda_dict)                             *)
(***************************************************************************)
Descriptors ==
    {[url |-> "https://wekeo/a", filename |-> "a.nc", size |-> 3],
     [url |-> "https://wekeo/b", filename |-> "b.nc", size |-> 0],
     [url |-> "https://wekeo/c", filename |-> "c.nc", size |-> None],
     [url |-> "https://wekeo/d", filename |-> "d.nc", size |-> 2]}

\* Result listings: up to MaxResults distinct descriptors, in any order.
Listings ==
    {l \in UNION {[1..n -> Descriptors] : n \in 0..MaxResults} :
        \A a, b \in 1..Len(l) : a # b => l[a] # l[b]}

\* Parsed bodies of the result endpoint: a listing, or an error document.
ResultBodies ==
    {[content |-> l] : l \in Listings} \cup {[message |-> "error"]}

ResultsRequest ==
    Request("GET", <<hda["broker_endpoint"], "/datarequest/jobs/", hda["job_id"], "/result">>)

GetResultsList_Send ==
    /\ pc = "cell_results"
    /\ inflight' = Send(inflight, ResultsRequest)
    /\ reqLog' = <<ResultsRequest>>
    /\ pc' = "grl_wait"
    /\ UNCHANGED <<resp, tcAnswers, keyVars, err, sessionVars, fsVars, pollVars, orderVars, dfVars>>

GetResultsList_AnswerMut ==
    /\ pc = "grl_wait"
    /\ inflight' = Answer(inflight, ResultsRequest)
    /\ reqLog' = reqLog
    /\ \E results \in ResultBodies : hda' = Put(Put(hda, "results", results), "dataset_id", "")
    /\ pc' = "cell_orders"
    /\ UNCHANGED <<resp, tcAnswers, keyVars, err, dirs, fsVars, pollVars, orderVars, dfVars>>

GetResultsList_Answer ==
    /\ pc = "grl_wait"
    /\ inflight' = Answer(inflight, ResultsRequest)
    /\ reqLog' = reqLog
    /\ \E results \in ResultBodies : hda' = Put(hda, "results", results)
    /\ pc' = "cell_orders"
    /\ UNCHANGED <<resp, tcAnswers, keyVars, err, dirs, fsVars, pollVars, orderVars, dfVars>>

(***************************************************************************)
(* Cell: hda_dict = get_order_ids(hda_dict)                                *)
(***************************************************************************)
\* The id the server assigns to its n-th order.
OrderIdOf(n) == <<"order", n>>

\* Orders the server has created so far (successful POSTs).
OrdersCreated == {k \in 1..Len(postLog) : postLog[k].status_code = CONST_HTTP_SUCCESS_CODE}

OrderRequest(data) ==
    [method |-> "POST", url |-> <<hda["broker_endpoint"], "/dataorder">>,
     headers |-> hda["headers"], json |-> data]

\* data = {"jobId": hda_dict['job_id'], "uri": result['url']}
OrderDataMut(result) == [jobId |-> hda["job_id"], uri |-> result.filename]
OrderData(result) == [jobId |-> hda["job_id"], uri |-> result.url]

\* i = 0; order_ids = []; order_sizes = []; the loop reads results['content'].
GetOrderIds_Begin ==
    /\ pc = "cell_orders"
    /\ Has(hda["results"], "content")
    /\ i' = 0
    /\ order_ids' = <<>>
    /\ order_sizes' = <<>>
    /\ response' = <<>>
    /\ reqLog' = <<>>
    /\ pc' = "goi_loop"
    /\ UNCHANGED <<resp, tcAnswers, keyVars, err, sessionVars, fsVars, inflight, pollVars, postLog, dfVars>>

GetOrderIds_NoContent ==
    /\ pc = "cell_orders"
    /\ ~Has(hda["results"], "content")
    /\ Raise("KeyError", 415)
    /\ UNCHANGED <<resp, tcAnswers, keyVars, sessionVars, fsVars, inflight, reqLog, pollVars, orderVars, dfVars>>

\* One iteration up to the POST: order_sizes.append(result['size']); requests.post(...)
GetOrderIds_Post ==
    /\ pc = "goi_loop"
    /\ i < Len(hda["results"]["content"])
    /\ LET result == hda["results"]["content"][i + 1]
       IN  /\ order_sizes' = Append(order_sizes, result.size)
           /\ inflight' = Send(inflight, OrderRequest(OrderData(result)))
           /\ reqLog' = Append(reqLog, OrderRequest(OrderData(result)))
    /\ pc' = "goi_wait"
    /\ UNCHANGED <<resp, tcAnswers, keyVars, err, sessionVars, fsVars, pollVars, i, order_ids, response,
                   postLog, dfVars>>

CurrentOrderData == OrderData(hda["results"]["content"][i + 1])

\* Non-success answer: print, i += 1.
GetOrderIds_PostFail ==
    /\ pc = "goi_wait"
    /\ inflight' = Answer(inflight, OrderRequest(CurrentOrderData))
    /\ reqLog' = reqLog
    /\ LET answer == [status_code |-> HTTP_ERROR_CODE, status |-> "", orderId |-> <<>>]
       IN  /\ response' = <<answer>>
           /\ postLog' = Append(postLog, [data |-> CurrentOrderData,
                                          status_code |-> answer.status_code,
                                          orderId |-> answer.orderId])
    /\ i' = i + 1
    /\ pc' = "goi_loop"
    /\ UNCHANGED <<resp, tcAnswers, keyVars, err, sessionVars, fsVars, pollVars, order_ids, order_sizes, dfVars>>

OrderAnswer ==
    [status_code |-> CONST_HTTP_SUCCESS_CODE, status |-> "",
     orderId |-> OrderIdOf(Cardinality(OrdersCreated) + 1)]

GetOrderIds_PostOkMut ==
    /\ pc = "goi_wait"
    /\ inflight' = Answer(inflight, OrderRequest(CurrentOrderData))
    /\ reqLog' = reqLog
    /\ response' = <<OrderAnswer>>
    /\ postLog' = Append(postLog, [data |-> CurrentOrderData,
                                   status_code |-> OrderAnswer.status_code,
                                   orderId |-> OrderAnswer.orderId])
    /\ order_ids' = Append(order_ids, OrderAnswer.orderId)
    /\ status' = "not started"
    /\ ngets' = 0
    /\ pollLog' = <<>>
    /\ presp' = <<>>
    /\ pc' = "gos_loop"
    /\ UNCHANGED <<resp, tcAnswers, keyVars, err, sessionVars, fsVars, i, order_sizes, dfVars>>

\* Success: order_ids.append(orderId); order_ids[i] is printed and polled.
GetOrderIds_PostOk ==
    /\ pc = "goi_wait"
    /\ Len(order_ids) + 1 > i
    /\ inflight' = Answer(inflight, OrderRequest(CurrentOrderData))
    /\ reqLog' = reqLog
    /\ response' = <<OrderAnswer>>
    /\ postLog' = Append(postLog, [data |-> CurrentOrderData,
                                   status_code |-> OrderAnswer.status_code,
                                   orderId |-> OrderAnswer.orderId])
    /\ order_ids' = Append(order_ids, OrderAnswer.orderId)
    /\ status' = "not started"
    /\ ngets' = 0
    /\ pollLog' = <<>>
    /\ presp' = <<>>
    /\ pc' = "gos_loop"
    /\ UNCHANGED <<resp, tcAnswers, keyVars, err, sessionVars, fsVars, i, order_sizes, dfVars>>

\* Success after an earlier failure: order_ids is shorter than i + 1, so
\* order_ids[i] raises.
GetOrderIds_PostOkIndexError ==
    /\ pc = "goi_wait"
    /\ ~(Len(order_ids) + 1 > i)
    /\ inflight' = Answer(inflight, OrderRequest(CurrentOrderData))
    /\ reqLog' = reqLog
    /\ response' = <<OrderAnswer>>
    /\ postLog' = Append(postLog, [data |-> CurrentOrderData,
                                   status_code |-> OrderAnswer.status_code,
                                   orderId |-> OrderAnswer.orderId])
    /\ order_ids' = Append(order_ids, OrderAnswer.orderId)
    /\ Raise("IndexError", 428)
    /\ UNCHANGED <<resp, tcAnswers, keyVars, sessionVars, fsVars, pollVars, i, order_sizes, dfVars>>

(***************************************************************************)
(* get_order_status(hda_dict, order_id), called with order_ids[i]          *)
(***************************************************************************)
OrderStatusRequest ==
    Request("GET", <<hda["broker_endpoint"], "/dataorder/status/", order_ids[i + 1]>>)

GetOrderStatus_Send ==
    /\ pc = "gos_loop"
    /\ PollContinue(status)
    /\ ngets < MaxPolls
    /\ inflight' = Send(inflight, OrderStatusRequest)
    /\ reqLog' = Append(reqLog, OrderStatusRequest)
    /\ ngets' = ngets + 1
    /\ pc' = "gos_wait"
    /\ UNCHANGED <<resp, tcAnswers, keyVars, err, sessionVars, fsVars, status, pollLog, presp, orderVars, dfVars>>

GetOrderStatus_Answer ==
    /\ pc = "gos_wait"
    /\ inflight' = Answer(inflight, OrderStatusRequest)
    /\ reqLog' = reqLog
    /\ \E answer \in StatusAnswers :
        /\ status' = NextStatus(status, answer)
        /\ pollLog' = Append(pollLog, answer)
        /\ presp' = <<answer>>
    /\ pc' = "gos_loop"
    /\ UNCHANGED <<resp, tcAnswers, keyVars, err, sessionVars, fsVars, ngets, orderVars, dfVars>>

\* The loop ends: return response
GetOrderStatus_Return ==
    /\ pc = "gos_loop"
    /\ ~PollContinue(status)
    /\ pc' = "gos_ret"
    /\ UNCHANGED <<resp, tcAnswers, keyVars, err, sessionVars, fsVars, inflight, reqLog, pollVars, orderVars, dfVars>>

\* Back in get_order_ids: response = <returned response>; i += 1.
GetOrderIds_Polled ==
    /\ pc = "gos_ret"
    /\ response' = presp
    /\ i' = i + 1
    /\ status' = ""
    /\ ngets' = 0
    /\ pollLog' = <<>>
    /\ presp' = <<>>
    /\ pc' = "goi_loop"
    /\ UNCHANGED <<resp, tcAnswers, keyVars, err, sessionVars, fsVars, inflight, reqLog, order_ids, order_sizes,
                   postLog, dfVars>>

\* After the loop: the three stores and return hda_dict.
GetOrderIds_Return ==
    /\ pc = "goi_loop"
    /\ ~(i < Len(hda["results"]["content"]))
    /\ response # <<>>
    /\ hda' = Put(Put(Put(hda, "order_ids", order_ids), "order_sizes", order_sizes),
                  "order_status_response", response[1])
    /\ i' = 0
    /\ order_ids' = <<>>
    /\ order_sizes' = <<>>
    /\ response' = <<>>
    /\ pc' = "cell_download"
    /\ UNCHANGED <<resp, tcAnswers, keyVars, err, dirs, fsVars, inflight, reqLog, pollVars, postLog, dfVars>>

GetOrderIds_UnboundMut ==
    /\ pc = "goi_loop"
    /\ ~(i < Len(hda["results"]["content"]))
    /\ response = <<>>
    /\ hda' = hda
    /\ Raise("UnboundLocalError", 436)
    /\ UNCHANGED <<resp, tcAnswers, keyVars, dirs, fsVars, inflight, reqLog, pollVars, orderVars, dfVars>>

\* No iteration ran: `response` is unbound at the third store.
GetOrderIds_Unbound ==
    /\ pc = "goi_loop"
    /\ ~(i < Len(hda["results"]["content"]))
    /\ response = <<>>
    /\ hda' = Put(Put(hda, "order_ids", order_ids), "order_sizes", order_sizes)
    /\ Raise("UnboundLocalError", 436)
    /\ UNCHANGED <<resp, tcAnswers, keyVars, dirs, fsVars, inflight, reqLog, pollVars, orderVars, dfVars>>

(***************************************************************************)
(* downloadFile(url, headers, directory, file_name, total_length)          *)
(***************************************************************************)
\* Chunks a download stream may deliver (each at most the chunk size long).
Chunks == {<<1>>, <<2, 3>>}

\* time.process_time() - start: 0 while no CPU time has been measured, 1 after.
ClockValues == {0, 1}
ClockReads(e) == {t \in ClockValues : t >= e}

\* os.path.join(directory, file_name) and "./" + file_name
PathJoin(directory, file_name) == <<directory, file_name>>

RECURSIVE Concat(_)
Concat(chunks) ==
    IF chunks = <<>> THEN <<>> ELSE Head(chunks) \o Concat(Tail(chunks))

\* open(filename, 'wb'): the file is created or truncated.
OpenWb(fs, path) == Put(fs, path, <<>>)

\* f.write(chunk)
WriteMut(fs, path, chunk) == Put(fs, path, chunk)
Write(fs, path, chunk) == Put(fs, path, fs[path] \o chunk)

\* dl += len(chunk)
Count(n, chunk) == n + Len(chunk)

\* Leaving the with block, normally or by an exception, closes the handle.
CloseMut(handles, path) == handles
Close(handles, path) == handles \ {path}

DownloadRequest == Request("GET", df.url)
DfPath == PathJoin(df.directory, df.file_name)

DownloadFile_NotOkMut ==
    /\ pc = "df_wait"
    /\ inflight' = Answer(inflight, DownloadRequest)
    /\ reqLog' = reqLog
    /\ r_status' = HTTP_ERROR_CODE
    /\ files' = OpenWb(files, DfPath)
    /\ time_elapsed' = 0
    /\ pc' = "df_ret"
    /\ UNCHANGED <<resp, tcAnswers, keyVars, err, sessionVars, openFiles, pollVars, orderVars,
                   df, dl, elapsed, received, dlLog>>

\* Answer with a status other than 200: nothing is opened, None is returned.
DownloadFile_NotOk ==
    /\ pc = "df_wait"
    /\ inflight' = Answer(inflight, DownloadRequest)
    /\ reqLog' = reqLog
    /\ r_status' = HTTP_ERROR_CODE
    /\ time_elapsed' = None
    /\ pc' = "df_ret"
    /\ UNCHANGED <<resp, tcAnswers, keyVars, err, sessionVars, fsVars, pollVars, orderVars,
                   df, dl, elapsed, received, dlLog>>

\* Answer 200: open the file, start the clock, print the size, dl = 0.
DownloadFile_Open ==
    /\ pc = "df_wait"
    /\ df.total_length # None
    /\ inflight' = Answer(inflight, DownloadRequest)
    /\ reqLog' = reqLog
    /\ r_status' = 200
    /\ files' = OpenWb(files, DfPath)
    /\ openFiles' = openFiles \cup {DfPath}
    /\ elapsed' = 0
    /\ dl' = 0
    /\ received' = <<>>
    /\ pc' = "df_stream"
    /\ UNCHANGED <<resp, tcAnswers, keyVars, err, sessionVars, pollVars, orderVars, df, time_elapsed, dlLog>>

\* Answer 200 with total_length None: total_length/(1024*1024) raises inside
\* the with block, after the file was opened.
DownloadFile_OpenTypeError ==
    /\ pc = "df_wait"
    /\ df.total_length = None
    /\ inflight' = Answer(inflight, DownloadRequest)
    /\ reqLog' = reqLog
    /\ r_status' = 200
    /\ files' = OpenWb(files, DfPath)
    /\ openFiles' = Close(openFiles \cup {DfPath}, DfPath)
    /\ Raise("TypeError", 511)
    /\ UNCHANGED <<resp, tcAnswers, keyVars, sessionVars, pollVars, orderVars,
                   df, dl, elapsed, received, time_elapsed, dlLog>>

DownloadFile_ChunkMut ==
    /\ pc = "df_stream"
    /\ Len(received) < MaxChunks
    /\ df.total_length # None
    /\ df.total_length # 0
    /\ \E chunk \in Chunks :
        /\ dl' = Count(dl, chunk)
        /\ files' = Write(files, DfPath, chunk)
        /\ received' = Append(received, chunk)
    /\ \E t \in ClockReads(elapsed) : elapsed' = t
    /\ UNCHANGED <<resp, tcAnswers, keyVars, pc, err, sessionVars, openFiles, inflight, reqLog, pollVars, orderVars,
                   df, r_status, time_elapsed, dlLog>>

\* One chunk: counted, written, and the progress line printed.
DownloadFile_Chunk ==
    /\ pc = "df_stream"
    /\ Len(received) < MaxChunks
    /\ df.total_length # None
    /\ df.total_length # 0
    /\ \E chunk \in Chunks :
        /\ dl' = Count(dl, chunk)
        /\ files' = Write(files, DfPath, chunk)
        /\ received' = Append(received, chunk)
    /\ \E t \in ClockReads(elapsed) : t # 0 /\ elapsed' = t
    /\ UNCHANGED <<resp, tcAnswers, keyVars, pc, err, sessionVars, openFiles, inflight, reqLog, pollVars, orderVars,
                   df, r_status, time_elapsed, dlLog>>

\* One chunk with total_length 0: int(50 * dl / total_length) raises after
\* the chunk was written.
DownloadFile_ChunkZeroLength ==
    /\ pc = "df_stream"
    /\ Len(received) < MaxChunks
    /\ df.total_length # None
    /\ df.total_length = 0
    /\ \E chunk \in Chunks :
        /\ dl' = Count(dl, chunk)
        /\ files' = Write(files, DfPath, chunk)
        /\ received' = Append(received, chunk)
    /\ openFiles' = Close(openFiles, DfPath)
    /\ Raise("ZeroDivisionError", 517)
    /\ UNCHANGED <<resp, tcAnswers, keyVars, sessionVars, inflight, reqLog, pollVars, orderVars,
                   df, elapsed, r_status, time_elapsed, dlLog>>

\* One chunk while no CPU time has elapsed: dl // (process_time() - start) raises.
DownloadFile_ChunkZeroTime ==
    /\ pc = "df_stream"
    /\ Len(received) < MaxChunks
    /\ df.total_length # None
    /\ df.total_length # 0
    /\ 0 \in ClockReads(elapsed)
    /\ \E chunk \in Chunks :
        /\ dl' = Count(dl, chunk)
        /\ files' = Write(files, DfPath, chunk)
        /\ received' = Append(received, chunk)
    /\ openFiles' = Close(openFiles, DfPath)
    /\ Raise("ZeroDivisionError", 519)
    /\ UNCHANGED <<resp, tcAnswers, keyVars, sessionVars, inflight, reqLog, pollVars, orderVars,
                   df, elapsed, r_status, time_elapsed, dlLog>>

\* End of the stream: the summary line, then return the elapsed time.
DownloadFile_End ==
    /\ pc = "df_stream"
    /\ \E t \in ClockReads(elapsed) :
        /\ t # 0
        /\ elapsed' = t
        /\ time_elapsed' = t
    /\ openFiles' = Close(openFiles, DfPath)
    /\ pc' = "df_ret"
    /\ UNCHANGED <<resp, tcAnswers, keyVars, err, sessionVars, files, inflight, reqLog, pollVars, orderVars,
                   df, dl, received, r_status, dlLog>>

\* End of the stream while no CPU time has elapsed: the summary line raises.
DownloadFile_EndZeroTime ==
    /\ pc = "df_stream"
    /\ 0 \in ClockReads(elapsed)
    /\ openFiles' = Close(openFiles, DfPath)
    /\ Raise("ZeroDivisionError", 524)
    /\ UNCHANGED <<resp, tcAnswers, keyVars, sessionVars, files, inflight, reqLog, pollVars, orderVars, dfVars>>

(***************************************************************************)
(* Cell: download_data(hda_dict)                                           *)
(***************************************************************************)
RECURSIVE FileNames(_)
FileNames(content) ==
    IF content = <<>> THEN <<>>
    ELSE <<Head(content).filename>> \o FileNames(Tail(content))

get_filenames(d) == FileNames(d["results"]["content"])

DownloadUrl(order_id) == <<hda["broker_endpoint"], "/dataorder/download/", order_id>>

\* fileName = get_filenames(hda_dict); i = 0
DownloadData_Begin ==
    /\ pc = "cell_download"
    /\ i' = 0
    /\ reqLog' = <<>>
    /\ pc' = "dd_loop"
    /\ UNCHANGED <<resp, tcAnswers, keyVars, err, sessionVars, fsVars, inflight, pollVars,
                   order_ids, order_sizes, response, postLog, dfVars>>

\* One iteration up to the GET inside downloadFile.
DownloadData_Call ==
    /\ pc = "dd_loop"
    /\ i < Len(hda["order_ids"])
    /\ LET order_id == hda["order_ids"][i + 1]
           file_name == get_filenames(hda)[i + 1]
           product_size == hda["order_sizes"][i + 1]
           frame == [url |-> DownloadUrl(order_id),
                     directory |-> hda["download_dir_path"],
                     file_name |-> file_name,
                     total_length |-> product_size]
       IN  /\ df' = frame
           /\ dlLog' = Append(dlLog, [order_id |-> order_id, file_name |-> file_name,
                                      total_length |-> product_size])
           /\ inflight' = Send(inflight, Request("GET", frame.url))
           /\ reqLog' = Append(reqLog, Request("GET", frame.url))
    /\ r_status' = 0
    /\ dl' = 0
    /\ elapsed' = 0
    /\ received' = <<>>
    /\ time_elapsed' = None
    /\ pc' = "df_wait"
    /\ UNCHANGED <<resp, tcAnswers, keyVars, err, sessionVars, fsVars, pollVars, orderVars>>

\* isfile("./" + file_name) under a success order_status_response:
\* "..." + response raises.
PrintsResponse ==
    /\ hda["order_status_response"].status_code = hda["CONST_HTTP_SUCCESS_CODE"]
    /\ Has(files, PathJoin("./", df.file_name))

\* After downloadFile returned: the prints, i += 1.
DownloadData_After ==
    /\ pc = "df_ret"
    /\ ~PrintsResponse
    /\ i' = i + 1
    /\ pc' = "dd_loop"
    /\ UNCHANGED <<resp, tcAnswers, keyVars, err, sessionVars, fsVars, inflight, reqLog, pollVars,
                   order_ids, order_sizes, response, postLog, dfVars>>

DownloadData_AfterTypeError ==
    /\ pc = "df_ret"
    /\ PrintsResponse
    /\ Raise("TypeError", 635)
    /\ UNCHANGED <<resp, tcAnswers, keyVars, sessionVars, fsVars, inflight, reqLog, pollVars, orderVars, dfVars>>

DownloadData_Return ==
    /\ pc = "dd_loop"
    /\ ~(i < Len(hda["order_ids"]))
    /\ pc' = "done"
    /\ UNCHANGED <<resp, tcAnswers, keyVars, err, sessionVars, fsVars, inflight, reqLog, pollVars, orderVars, dfVars>>

(***************************************************************************)
(* The init cell run again at the end of the workflow, with the same       *)
(* download_dir_path: init builds a fresh dictionary.                      *)
(***************************************************************************)
InitAgain ==
    /\ pc = "done"
    /\ hda' = init(DatasetId, api_key, hda["download_dir_path"])
    /\ dirs' = MakeDirs(dirs, hda["download_dir_path"])
    /\ pc' = "init_again"
    /\ UNCHANGED <<resp, tcAnswers, keyVars, err, fsVars, inflight, reqLog, pollVars, orderVars,
                   dfVars>>

(***************************************************************************)
(* A stage run out of the documented order. Each stage is the sequence of  *)
(* its reads of hda_dict, its HTTP requests and its stores, in the order   *)
(* the source evaluates them; a read of an absent key raises KeyError.     *)
(***************************************************************************)
Rd(key, line) == [op |-> "read", key |-> key, line |-> line]
Req(line) == [op |-> "request", key |-> "", line |-> line]
Wr(key, line) == [op |-> "write", key |-> key, line |-> line]

query_metadata_steps ==
    <<Rd("broker_endpoint", 231), Rd("dataset_id", 231), Rd("headers", 231), Req(231),
      Rd("broker_endpoint", 233), Rd("dataset_id", 233), Rd("access_token", 233),
      Rd("dataset_id", 234), Rd("CONST_HTTP_SUCCESS_CODE", 236),
      Wr("parsedResponse", 243)>>

\* The PUT of line 277 reads the keys the GET of line 271 has read.
acceptTandC_steps ==
    <<Rd("acceptTandC_address", 271), Rd("headers", 271), Req(271),
      Wr("isTandCAccepted", 281)>>

\* get_job_id, then the first iteration of get_request_status.
get_job_id_steps ==
    <<Rd("broker_endpoint", 309), Rd("headers", 309), Req(309),
      Rd("CONST_HTTP_SUCCESS_CODE", 311), Wr("job_id", 318),
      Rd("broker_endpoint", 345), Rd("job_id", 345), Rd("headers", 345), Req(345),
      Rd("CONST_HTTP_SUCCESS_CODE", 346)>>

get_results_list_stepsMut ==
    <<Rd("broker_endpoint", 377), Rd("headers", 377), Req(377), Rd("job_id", 377),
      Wr("results", 379)>>
get_results_list_steps ==
    <<Rd("broker_endpoint", 377), Rd("job_id", 377), Rd("headers", 377), Req(377),
      Wr("results", 379)>>

\* The loop body runs only for a non-empty listing; its first iteration,
\* with get_order_status, reads every key the later ones read.
get_order_ids_steps(d) ==
    <<Rd("results", 415)>>
    \o (IF Has(d, "results") /\ Has(d["results"], "content")
            /\ d["results"]["content"] # <<>>
        THEN <<Rd("job_id", 418), Rd("broker_endpoint", 424), Rd("headers", 424), Req(424),
               Rd("CONST_HTTP_SUCCESS_CODE", 426),
               Rd("broker_endpoint", 466), Rd("headers", 466), Req(466),
               Rd("CONST_HTTP_SUCCESS_CODE", 468)>>
        ELSE <<>>)
    \o <<Wr("order_ids", 434), Wr("order_sizes", 435), Wr("order_status_response", 436)>>

\* get_filenames, then the loop over order_ids: its body runs only for a
\* non-empty order_ids.
download_data_steps(d) ==
    <<Rd("results", 585), Rd("order_ids", 613)>>
    \o (IF Has(d, "order_ids") /\ d["order_ids"] # <<>>
        THEN <<Rd("broker_endpoint", 617), Rd("order_sizes", 619), Rd("headers", 622),
               Rd("download_dir_path", 623), Rd("headers", 626),
               Rd("download_dir_path", 626), Req(503),
               Rd("order_status_response", 630), Rd("CONST_HTTP_SUCCESS_CODE", 632)>>
        ELSE <<>>)

\* Step p reads a key that is neither in the record nor stored by an earlier step.
Missing(steps, d, p) ==
    /\ steps[p].op = "read"
    /\ ~Has(d, steps[p].key)
    /\ \A q \in 1..(p - 1) : ~(steps[q].op = "write" /\ steps[q].key = steps[p].key)

Lacks(steps, d) == \E p \in 1..Len(steps) : Missing(steps, d, p)

FirstMissing(steps, d) ==
    CHOOSE p \in 1..Len(steps) :
        Missing(steps, d, p) /\ \A q \in 1..(p - 1) : ~Missing(steps, d, q)

IsRequest(step) == step.op = "request"

\* The record after the stores among the given steps (stored values are not modelled).
Stored(d, steps) ==
    LET keys == {steps[q].key : q \in {q \in 1..Len(steps) : steps[q].op = "write"}}
    IN  [x \in (DOMAIN d) \cup keys |-> IF x \in keys THEN <<>> ELSE d[x]]

\* Positions at which the notebook is idle and a cell can be run.
IdlePositions ==
    {"cell_token", "cell_tandc", "cell_job", "cell_results", "cell_orders",
     "cell_download", "done", "init_again", "halted"}

\* The stage runs up to its first read of an absent key and raises there.
CallLacking(steps) ==
    /\ Lacks(steps, hda)
    /\ LET p == FirstMissing(steps, hda)
           before == SubSeq(steps, 1, p - 1)
       IN  /\ reqLog' = SelectSeq(before, IsRequest)
           /\ hda' = Stored(hda, before)
           /\ Raise("KeyError", steps[p].line)
    /\ UNCHANGED <<resp, tcAnswers, keyVars, dirs, fsVars, inflight, pollVars, orderVars, dfVars>>

QueryMetadata_KeyError ==
    /\ pc \in IdlePositions
    /\ CallLacking(query_metadata_steps)

AcceptTandC_KeyError ==
    /\ pc \in IdlePositions
    /\ CallLacking(acceptTandC_steps)

GetJobId_KeyError ==
    /\ pc \in IdlePositions
    /\ CallLacking(get_job_id_steps)

GetResultsList_KeyError ==
    /\ pc \in IdlePositions
    /\ CallLacking(get_results_list_steps)

GetOrderIds_KeyError ==
    /\ pc \in IdlePositions
    /\ CallLacking(get_order_ids_steps(hda))

DownloadData_KeyError ==
    /\ pc \in IdlePositions
    /\ CallLacking(download_data_steps(hda))

(***************************************************************************)
(* Specifications.                                                         *)
(***************************************************************************)
Next ==
    \/ GenerateApiKey
    \/ InitCell
    \/ GetAccessToken_Send
    \/ GetAccessToken_Ok
    \/ GetAccessToken_Fail
    \/ QueryMetadata_Send
    \/ QueryMetadata_Ok
    \/ QueryMetadata_Fail
    \/ AcceptTandC_Send
    \/ AcceptTandC_Accepted
    \/ AcceptTandC_Put
    \/ AcceptTandC_PutAnswer
    \/ AcceptTandC_GetKeyError
    \/ AcceptTandC_PutKeyError
    \/ GetJobId_Send
    \/ GetJobId_Answer
    \/ GetRequestStatus_Send
    \/ GetRequestStatus_Answer
    \/ GetRequestStatus_Return
    \/ GetJobId_Return
    \/ GetResultsList_Send
    \/ GetResultsList_Answer
    \/ GetOrderIds_Begin
    \/ GetOrderIds_NoContent
    \/ GetOrderIds_Post
    \/ GetOrderIds_PostFail
    \/ GetOrderIds_PostOk
    \/ GetOrderIds_PostOkIndexError
    \/ GetOrderStatus_Send
    \/ GetOrderStatus_Answer
    \/ GetOrderStatus_Return
    \/ GetOrderIds_Polled
    \/ GetOrderIds_Return
    \/ GetOrderIds_Unbound
    \/ DownloadData_Begin
    \/ DownloadData_Call
    \/ DownloadFile_NotOk
    \/ DownloadFile_Open
    \/ DownloadFile_OpenTypeError
    \/ DownloadFile_Chunk
    \/ DownloadFile_ChunkZeroLength
    \/ DownloadFile_ChunkZeroTime
    \/ DownloadFile_End
    \/ DownloadFile_EndZeroTime
    \/ DownloadData_After
    \/ DownloadData_AfterTypeError
    \/ DownloadData_Return
    \/ InitAgain
    \/ QueryMetadata_KeyError
    \/ AcceptTandC_KeyError
    \/ GetJobId_KeyError
    \/ GetResultsList_KeyError
    \/ GetOrderIds_KeyError
    \/ DownloadData_KeyError

Spec == Init /\ [][Next]_vars

(***************************************************************************)
(* The workflow against a well-behaved server: every request is answered   *)
(* with success, every job and order is reported "completed" after         *)
(* finitely many polls, every listed file has a nonzero size and is served *)
(* as a non-empty finite chunk stream, with process time elapsing.         *)
(***************************************************************************)
GoodStatusAnswer(answer) ==
    /\ answer.status_code = CONST_HTTP_SUCCESS_CODE
    /\ answer.status \in {"running", "completed"}

Good_GetAccessToken_Send ==
    /\ pc = "cell_token"
    /\ GetAccessToken_Send

Good_GetJobId_Answer ==
    /\ GetJobId_Answer
    /\ hda'["job_id"] \in JobIds

Good_GetRequestStatus_Answer ==
    /\ GetRequestStatus_Answer
    /\ GoodStatusAnswer(Last(pollLog'))
    /\ ngets = MaxPolls => Last(pollLog').status = "completed"

Good_GetResultsList_Answer ==
    /\ GetResultsList_Answer
    /\ Has(hda'["results"], "content")
    /\ \A k \in 1..Len(hda'["results"]["content"]) : hda'["results"]["content"][k].size > 0

Good_GetOrderStatus_Answer ==
    /\ GetOrderStatus_Answer
    /\ GoodStatusAnswer(Last(pollLog'))
    /\ ngets = MaxPolls => Last(pollLog').status = "completed"

Good_DownloadFile_End ==
    /\ received # <<>>
    /\ DownloadFile_End

NextGood ==
    \/ GenerateApiKey
    \/ InitCell
    \/ Good_GetAccessToken_Send
    \/ GetAccessToken_Ok
    \/ AcceptTandC_Send
    \/ AcceptTandC_Accepted
    \/ AcceptTandC_Put
    \/ AcceptTandC_PutAnswer
    \/ GetJobId_Send
    \/ Good_GetJobId_Answer
    \/ GetRequestStatus_Send
    \/ Good_GetRequestStatus_Answer
    \/ GetRequestStatus_Return
    \/ GetJobId_Return
    \/ GetResultsList_Send
    \/ Good_GetResultsList_Answer
    \/ GetOrderIds_Begin
    \/ GetOrderIds_Post
    \/ GetOrderIds_PostOk
    \/ GetOrderStatus_Send
    \/ Good_GetOrderStatus_Answer
    \/ GetOrderStatus_Return
    \/ GetOrderIds_Polled
    \/ GetOrderIds_Return
    \/ GetOrderIds_Unbound
    \/ DownloadData_Begin
    \/ DownloadData_Call
    \/ DownloadFile_Open
    \/ DownloadFile_Chunk
    \/ Good_DownloadFile_End
    \/ DownloadData_After
    \/ DownloadData_AfterTypeError
    \/ DownloadData_Return

\* The notebook keeps running its cells and the server keeps answering.
SpecGood == Init /\ [][NextGood]_vars /\ WF_vars(NextGood)

NextKey == GenerateApiKey

SpecKey == InitKey /\ [][NextKey]_vars

TypeOK ==
    /\ err.name \in {"none", "UnboundLocalError", "KeyError", "IndexError", "TypeError",
                     "ZeroDivisionError"}
    /\ (pc = "halted") <=> (err # NoError)
    /\ Cardinality(inflight) <= 1
    /\ ngets \in 0..MaxPolls
    /\ Len(received) <= MaxChunks
    /\ time_elapsed \in {None} \cup ClockValues

(***************************************************************************)
(* Properties.                                                             *)
(***************************************************************************)
Content == hda["results"]["content"]

\* The uri for which the server created the order with the given id, or "".
OrderedUri(order_id) ==
    IF \E k \in OrdersCreated : postLog[k].orderId = order_id
    THEN postLog[CHOOSE k \in OrdersCreated : postLog[k].orderId = order_id].data.uri
    ELSE ""

\* C1: with N result descriptors, get_order_ids stores N order ids, the k-th
\* being the order of the k-th descriptor, and download_data then attempts N
\* downloads, the k-th with the k-th order id, filename and size.
C1_OrdersAndDownloadsMatchResults ==
    /\ pc \in {"cell_download", "dd_loop", "df_wait", "df_stream", "df_ret", "done"} =>
        /\ Len(hda["order_ids"]) = Len(Content)
        /\ \A k \in 1..Len(hda["order_ids"]) :
             OrderedUri(hda["order_ids"][k]) = Content[k].url
    /\ pc = "done" =>
        /\ Len(dlLog) = Len(Content)
        /\ \A k \in 1..Len(dlLog) :
             /\ dlLog[k].order_id = hda["order_ids"][k]
             /\ dlLog[k].file_name = Content[k].filename
             /\ dlLog[k].total_length = Content[k].size

FailedAnswer ==
    [status_code |-> CONST_HTTP_SUCCESS_CODE, status |-> "failed", orderId |-> <<>>]
CompletedAnswer ==
    [status_code |-> CONST_HTTP_SUCCESS_CODE, status |-> "completed", orderId |-> <<>>]

\* C2: once a status answer is 200/"failed", polling ends with a failure: no
\* further status GET is issued and the poll does not go on to return.
C2_FailedEndsPolling ==
    (\E k \in 1..Len(pollLog) : pollLog[k] = FailedAnswer) =>
        pc \notin {"grs_wait", "gos_wait", "grs_ret", "gos_ret"}

\* Position of the first 200/"completed" answer in a log, 0 when there is none.
FirstCompleted(log) ==
    IF \E k \in 1..Len(log) : log[k] = CompletedAnswer
    THEN CHOOSE k \in 1..Len(log) :
            /\ log[k] = CompletedAnswer
            /\ \A j \in 1..(k - 1) : log[j] # CompletedAnswer
    ELSE 0

\* C3: when a polling call returns, the number of status GETs it issued is the
\* position of the first 200/"completed" answer; a first answer that is
\* already 200/"completed" means exactly one GET.
C3_GetsUntilFirstCompleted ==
    /\ pc \in {"grs_ret", "gos_ret"} => ngets = FirstCompleted(pollLog) /\ ngets >= 1
    /\ (pollLog # <<>> /\ pollLog[1] = CompletedAnswer) => ngets = 1

C3_Witness ==
    /\ pc = "gos_ret"
    /\ ngets = 3
    /\ pollLog[1] = FailedAnswer
    /\ pollLog[2].status_code = HTTP_ERROR_CODE

\* C4: a polling call returns only with its last answer being 200/"completed",
\* and the response get_order_status hands back (later stored as
\* order_status_response) is that answer.
C4_ReturnsOnlyOnCompleted ==
    /\ pc \in {"grs_ret", "gos_ret"} => presp = <<CompletedAnswer>> /\ Last(pollLog) = CompletedAnswer
    /\ (response # <<>> /\ response[1].status_code = CONST_HTTP_SUCCESS_CODE
            /\ response[1].orderId = <<>>) => response[1] = CompletedAnswer
    /\ (Has(hda, "order_status_response")
            /\ hda["order_status_response"].status_code = CONST_HTTP_SUCCESS_CODE)
        => hda["order_status_response"] = CompletedAnswer

C4_Witness ==
    /\ pc = "goi_loop"
    /\ i = 1
    /\ response = <<CompletedAnswer>>

RECURSIVE SumLen(_)
SumLen(chunks) ==
    IF chunks = <<>> THEN 0 ELSE Len(Head(chunks)) + SumLen(Tail(chunks))

\* C5: on the 200 path, after every chunk dl equals the bytes written so far,
\* and the file holds the concatenation of the received chunks in arrival
\* order; in particular when downloadFile returns.
C5_FileIsConcatenationOfChunks ==
    (r_status = 200 /\ Has(files, DfPath)) =>
        /\ dl = Len(files[DfPath])
        /\ dl = SumLen(received)
        /\ files[DfPath] = Concat(received)

C5_Witness ==
    /\ pc = "df_ret"
    /\ r_status = 200
    /\ received = <<(<<2, 3>>), (<<1>>)>>
    /\ files[DfPath] = <<2, 3, 1>>
    /\ dl = 3

\* C6: when the download answer is not 200, downloadFile returns None, raises
\* nothing and leaves no file and no open handle; an elapsed time is returned
\* only on the 200 path.
C6_NotOkWritesNothing ==
    /\ (pc = "df_ret" /\ r_status # 200) =>
        /\ time_elapsed = None
        /\ err = NoError
        /\ ~Has(files, DfPath)
        /\ openFiles = {}
    /\ (pc = "df_ret" /\ time_elapsed # None) => r_status = 200

C6_Witness ==
    /\ pc = "df_ret"
    /\ r_status = HTTP_ERROR_CODE
    /\ Len(dlLog) = 2
    /\ DOMAIN files # {}

\* C7: a download with total_length 0 never divides by total_length: it does
\* not end with the ZeroDivisionError of the progress computation.
C7_ZeroLengthCompletes ==
    (r_status = 200 /\ df.total_length = 0) =>
        ~(pc = "halted" /\ err = [name |-> "ZeroDivisionError", line |-> 517])

\* C8: a download with total_length None and a 200 answer returns normally
\* with every received chunk written.
C8_UnknownLengthReturns ==
    (r_status = 200 /\ df.total_length = None) =>
        /\ pc # "halted"
        /\ Has(files, DfPath) => files[DfPath] = Concat(received)

\* C9: at most one HTTP request is in flight; no request is issued while a
\* download file is open, and downloads are issued in order_ids order.
C9_OneRequestAtATime ==
    /\ Cardinality(inflight) <= 1
    /\ inflight # {} => openFiles = {}
    /\ pc \in {"dd_loop", "df_wait", "df_stream", "df_ret"} =>
         \A k \in 1..Len(dlLog) : dlLog[k].order_id = hda["order_ids"][k]

C9_Witness ==
    /\ pc = "df_wait"
    /\ Cardinality(inflight) = 1
    /\ Len(dlLog) = 2
    /\ Has(files, PathJoin(df.directory, dlLog[1].file_name))
    /\ files[PathJoin(df.directory, dlLog[1].file_name)] # <<>>

\* C10: Base64-decoding the key (and reading the bytes as UTF-8) yields
\* username + ":" + password, and the documented example encodes to
\* d2VrZW8tdGVzdDp3ZWtlby10ZXN0.
C10_RoundTrip ==
    pc # "cell_api_key" =>
        /\ Utf8Decode(B64Decode(api_key)) = username \o Colon \o password
        /\ (username = WekeoTest /\ password = WekeoTest) => api_key = WekeoTestKey

C10_Witness ==
    /\ pc = "cell_init"
    /\ api_key = WekeoTestKey
    /\ username = WekeoTest
    /\ password = WekeoTest

\* C11: acceptTandC issues exactly one GET, and a PUT exactly when that GET
\* answered accepted = false; the stored isTandCAccepted is the 'accepted'
\* field of the last response received.
C11_OneGetAndPutIffNotAccepted ==
    (pc = "cell_job" \/ (pc = "halted" /\ err.line \in {273, 280})) =>
        LET gets == {k \in 1..Len(reqLog) : reqLog[k] = TandCGet}
            puts == {k \in 1..Len(reqLog) : reqLog[k] = TandCPut}
        IN  /\ gets = {1}
            /\ Len(reqLog) = Cardinality(gets) + Cardinality(puts)
            /\ Cardinality(puts) <= 1
            /\ (puts # {}) <=>
                 (Has(tcAnswers[1], "accepted") /\ tcAnswers[1]["accepted"] = FALSE)
            /\ pc = "cell_job" =>
                 /\ Len(tcAnswers) = Len(reqLog)
                 /\ hda["isTandCAccepted"] = Last(tcAnswers)["accepted"]

C11_Witness ==
    /\ pc = "cell_job"
    /\ reqLog = <<TandCGet, TandCPut>>
    /\ hda["isTandCAccepted"] = FALSE

\* C12: while no answer has been 200/"completed", the only step a polling
\* loop takes from its head is to issue one more status GET: it never
\* returns, whatever the answers were.
C12_PollsUntilCompleted ==
    [][(pc \in {"grs_loop", "gos_loop"}
            /\ \A k \in 1..Len(pollLog) : pollLog[k] # CompletedAnswer)
        => /\ pc' = (IF pc = "grs_loop" THEN "grs_wait" ELSE "gos_wait")
           /\ ngets' = ngets + 1
           /\ Len(reqLog') = Len(reqLog) + 1]_vars

C12_Witness ==
    /\ pc = "gos_wait"
    /\ ngets = MaxPolls
    /\ ngets >= 3
    /\ pollLog[1] = FailedAnswer
    /\ \A k \in 2..Len(pollLog) : pollLog[k].status_code = HTTP_ERROR_CODE

\* C13: with a nonzero total_length, a chunk after which no process time has
\* elapsed ends downloadFile with the division error of the throughput
\* computation: the chunk is already in the file, the handle is closed and
\* nothing is returned; the loop goes on only with elapsed time nonzero.
C13_ZeroElapsedRaisesAfterWrite ==
    /\ (pc = "df_stream" /\ received # <<>>) => elapsed # 0
    /\ (pc = "halted" /\ err = [name |-> "ZeroDivisionError", line |-> 519]) =>
        /\ r_status = 200
        /\ df.total_length \notin {0, None}
        /\ elapsed = 0
        /\ received # <<>>
        /\ files[DfPath] = Concat(received)
        /\ time_elapsed = None

C13_Witness ==
    /\ pc = "halted"
    /\ err = [name |-> "ZeroDivisionError", line |-> 519]
    /\ files[DfPath] = <<2, 3>>

\* C14: at most one download file handle is open, only inside the chunk
\* loop of a download answered 200, and none once downloadFile has exited,
\* by return or by an error.
C14_HandleScopedToDownload ==
    /\ Cardinality(openFiles) <= 1
    /\ openFiles # {} => (pc = "df_stream" /\ r_status = 200 /\ openFiles = {DfPath})
    /\ pc \in {"df_ret", "halted", "dd_loop", "done"} => openFiles = {}

C14_Witness ==
    /\ pc = "halted"
    /\ err = [name |-> "ZeroDivisionError", line |-> 517]
    /\ Has(files, DfPath)
    /\ openFiles = {}

\* C15: get_job_id issues exactly one POST and then polls the job status,
\* for the empty job id when the POST failed; it returns only after the poll
\* saw 200/"completed".
C15_OnePostThenPoll ==
    /\ pc \in {"grs_loop", "grs_wait", "grs_ret", "cell_results"} =>
        /\ reqLog[1] = JobRequest
        /\ \A k \in 2..Len(reqLog) : reqLog[k] = JobStatusRequest
        /\ JobStatusRequest.url = <<Broker, "/datarequest/status/", hda["job_id"]>>
    /\ pc = "grs_wait" => inflight = {JobStatusRequest}
    /\ pc = "grs_ret" =>
        /\ Last(pollLog) = CompletedAnswer
        /\ Len(reqLog) = 1 + ngets
    /\ pc = "cell_results" => Len(reqLog) >= 2

C15_Witness ==
    /\ pc = "grs_ret"
    /\ hda["job_id"] = ""
    /\ ngets = 2
    /\ reqLog[3].url = <<Broker, "/datarequest/status/", "">>

\* C16: in get_order_ids a POST is issued only when the previous result's
\* order, if its POST succeeded, was polled to "completed"; only the order
\* just created by a successful POST is polled; every POST body carries the
\* session's job id and the url of the result being iterated.
C16_PostAfterPreviousOrderCompleted ==
    /\ pc = "goi_wait" =>
        /\ inflight =
             {OrderRequest([jobId |-> hda["job_id"], uri |-> Content[i + 1].url])}
        /\ Len(postLog) = i
        /\ (i >= 1 /\ postLog[i].status_code = CONST_HTTP_SUCCESS_CODE)
             => response = <<CompletedAnswer>>
    /\ Has(hda, "results") =>
         \A k \in 1..Len(postLog) :
             postLog[k].data = [jobId |-> hda["job_id"], uri |-> Content[k].url]
    /\ pc \in {"gos_loop", "gos_wait", "gos_ret"} =>
        /\ Len(postLog) = i + 1
        /\ Last(postLog).status_code = CONST_HTTP_SUCCESS_CODE
        /\ order_ids[i + 1] = Last(postLog).orderId
    /\ pc = "gos_wait" =>
         inflight = {Request("GET", <<Broker, "/dataorder/status/", Last(postLog).orderId>>)}

C16_Witness ==
    /\ pc = "goi_wait"
    /\ i = 1
    /\ postLog[1].status_code = CONST_HTTP_SUCCESS_CODE
    /\ response = <<CompletedAnswer>>

\* C17: whenever download_data has ended, it has issued exactly one download
\* GET per entry of order_ids, in order, to /dataorder/download/<order id>,
\* with the k-th filename of the listing and the k-th entry of order_sizes.
C17_OneDownloadPerOrderId ==
    (pc = "done" \/ (pc = "halted" /\ err.line \in {511, 517, 519, 524, 635})) =>
        /\ Len(reqLog) = Len(hda["order_ids"])
        /\ Len(dlLog) = Len(hda["order_ids"])
        /\ \A k \in 1..Len(dlLog) :
             /\ reqLog[k] = Request("GET", DownloadUrl(hda["order_ids"][k]))
             /\ dlLog[k].order_id = hda["order_ids"][k]
             /\ dlLog[k].file_name = Content[k].filename
             /\ dlLog[k].total_length = hda["order_sizes"][k]

\* C18: get_access_token issues exactly one GET, authorised with
\* 'Basic ' + api_key; from its return on, headers['Authorization'] is
\* 'Bearer ' + access_token, and no later stage writes either field.
C18_BearerHeaderOfToken ==
    /\ [][(pc = "gat_wait" /\ pc' # pc) =>
            reqLog' = <<[method |-> "GET", url |-> <<Broker, "/gettoken">>,
                         headers |-> [Authorization |-> <<"Basic ", api_key>>]]>>]_vars
    /\ [](/\ pc \in {"cell_tandc", "cell_job", "cell_results", "cell_orders",
                     "cell_download", "done"} => Has(hda, "headers")
          /\ Has(hda, "headers") =>
               /\ Has(hda, "access_token")
               /\ hda["access_token"] \in Tokens
               /\ hda["headers"] = [Authorization |-> <<"Bearer ", hda["access_token"]>>,
                                    Accept |-> "application/json"])
    /\ [][(Has(hda, "headers") /\ pc # "done") =>
            /\ Has(hda', "headers") /\ Has(hda', "access_token")
            /\ hda'["headers"] = hda["headers"]
            /\ hda'["access_token"] = hda["access_token"]]_vars

C18_Witness ==
    /\ pc = "done"
    /\ hda["headers"]["Authorization"] = <<"Bearer ", "f44e9594">>

InitFields ==
    {"broker_endpoint", "acceptTandC_address", "accessToken_address", "dataset_id",
     "api_key", "CONST_HTTP_SUCCESS_CODE", "download_dir_path"}

\* The keys a stage writes, by the position the run is at.
StageFields(at) ==
    IF at = "gat_wait" THEN {"access_token", "headers"}
    ELSE IF at = "qm_wait" THEN {"parsedResponse"}
    ELSE IF at \in {"tc_wait_get", "tc_wait_put"} THEN {"isTandCAccepted"}
    ELSE IF at = "gji_wait" THEN {"job_id"}
    ELSE IF at = "grl_wait" THEN {"results"}
    ELSE IF at = "goi_loop" THEN {"order_ids", "order_sizes", "order_status_response"}
    ELSE {}

\* C19: after init, every step of every stage keeps the session record's
\* keys, leaves the fields written by init unchanged and changes only the
\* result fields of the stage that is running.
C19_StagesKeepInitFields ==
    [][pc \notin {"cell_api_key", "cell_init", "done"} =>
        /\ DOMAIN hda \subseteq DOMAIN hda'
        /\ \A k \in InitFields : hda'[k] = hda[k]
        /\ \A k \in DOMAIN hda' :
             (k \notin DOMAIN hda \/ hda'[k] # hda[k]) => k \in StageFields(pc)]_vars

C19_Witness ==
    /\ pc = "done"
    /\ Has(hda, "order_status_response")
    /\ hda["api_key"] = WekeoTestKey
    /\ hda["dataset_id"] = DatasetId

\* C20: once init has returned the download directory exists; init creates
\* it only when absent, removes no directory, touches no file and issues no
\* HTTP request, also when it is run again on a directory holding downloads.
C20_InitCreatesDirectoryOnce ==
    /\ [](pc \notin {"cell_api_key", "cell_init"} => hda["download_dir_path"] \in dirs)
    /\ [][(pc \in {"cell_init", "done"} /\ pc' # pc) =>
            /\ files' = files
            /\ inflight = {} /\ inflight' = {}
            /\ reqLog' = reqLog
            /\ dirs \subseteq dirs'
            /\ dirs' \ dirs \subseteq {hda'["download_dir_path"]}
            /\ pc = "done" => dirs' = dirs]_vars

C20_Witness ==
    /\ pc = "init_again"
    /\ Has(files, PathJoin("./data/", "a.nc"))
    /\ files[PathJoin("./data/", "a.nc")] # <<>>
    /\ hda["download_dir_path"] = "./data/"


\* Every failed order POST of the log is followed by failed POSTs only.
FailedFormSuffix(log) ==
    \A j, k \in 1..Len(log) :
        (j < k /\ log[j].status_code # CONST_HTTP_SUCCESS_CODE)
            => log[k].status_code # CONST_HTTP_SUCCESS_CODE

\* C22: while get_order_ids runs and when it has returned normally, the
\* failed order POSTs form a suffix of the results list; a successful POST
\* after a failed one ends the call with the index error of line 428. At a
\* normal return order_ids[k] is the order of result k, order_ids is no
\* longer than order_sizes, and order_sizes has one entry per descriptor.
C22_FailedPostsFormSuffix ==
    /\ pc \in {"goi_loop", "goi_wait", "gos_loop", "gos_wait", "gos_ret"}
         => FailedFormSuffix(postLog)
    /\ err = [name |-> "IndexError", line |-> 428] =>
        /\ ~FailedFormSuffix(postLog)
        /\ FailedFormSuffix(SubSeq(postLog, 1, Len(postLog) - 1))
        /\ ~Has(hda, "order_ids")
    /\ Has(hda, "order_status_response") =>
        /\ FailedFormSuffix(postLog)
        /\ Len(postLog) = Len(Content)
        /\ Len(hda["order_ids"]) <= Len(hda["order_sizes"])
        /\ Len(hda["order_sizes"]) = Len(Content)
        /\ \A k \in 1..Len(hda["order_ids"]) :
             /\ postLog[k].status_code = CONST_HTTP_SUCCESS_CODE
             /\ hda["order_ids"][k] = postLog[k].orderId
             /\ postLog[k].data.uri = Content[k].url
        /\ \A k \in 1..Len(Content) : hda["order_sizes"][k] = Content[k].size

C22_Witness ==
    /\ pc = "cell_download"
    /\ Len(hda["order_ids"]) = 1
    /\ Len(hda["order_sizes"]) = 2
    /\ postLog[2].status_code = HTTP_ERROR_CODE

\* C23: with a listing of zero descriptors get_order_ids issues no request
\* and ends with the unbound-local error of the third store (line 436), with
\* empty order_ids and order_sizes already in the session record and no
\* order_status_response; it returns only for a non-empty listing.
C23_EmptyListingRaisesAfterStores ==
    /\ (pc = "goi_loop" /\ Content = <<>>) => (reqLog = <<>> /\ response = <<>>)
    /\ err = [name |-> "UnboundLocalError", line |-> 436] =>
        /\ Content = <<>>
        /\ reqLog = <<>>
        /\ inflight = {}
        /\ postLog = <<>>
        /\ Has(hda, "order_ids") /\ hda["order_ids"] = <<>>
        /\ Has(hda, "order_sizes") /\ hda["order_sizes"] = <<>>
        /\ ~Has(hda, "order_status_response")
    /\ Has(hda, "order_status_response") => Content # <<>>

C23_Witness ==
    /\ pc = "halted"
    /\ err = [name |-> "UnboundLocalError", line |-> 436]
    /\ hda["order_ids"] = <<>>
    /\ hda["results"] = [content |-> <<>>]


\* C24: when the token endpoint or the metadata endpoint answers with a
\* non-success status, the call ends with the unbound-local error of its
\* store (line 203, line 243) and the session record is left as it was:
\* access_token and headers, or parsedResponse, keep their value or stay
\* absent.
C24_FailedAnswerWritesNothing ==
    [][(pc \in {"gat_wait", "qm_wait"} /\ pc' # pc
            /\ resp'[1].status_code # hda["CONST_HTTP_SUCCESS_CODE"])
        => /\ pc' = "halted"
           /\ err' = [name |-> "UnboundLocalError",
                      line |-> IF pc = "gat_wait" THEN 203 ELSE 243]
           /\ hda' = hda]_vars

C24_Witness ==
    /\ pc = "halted"
    /\ err = [name |-> "UnboundLocalError", line |-> 243]
    /\ resp = <<HttpAnswer(HTTP_ERROR_CODE)>>
    /\ Has(hda, "parsedResponse")
    /\ hda["parsedResponse"].datasetId = DatasetId


\* C25: a stage run on a session record that lacks a field it reads ends
\* with a KeyError before it has issued any HTTP request, and leaves the
\* session record and the files as they were.
C25_LackingFieldRaisesBeforeRequest ==
    [][(/\ pc \in IdlePositions
        /\ pc' = "halted"
        /\ err' # err
        /\ err'.name = "KeyError"
        /\ ~(err'.line = 415 /\ Has(hda, "results")))
        => /\ err'.line \in {231, 271, 309, 377, 415, 585, 613}
           /\ hda' = hda
           /\ reqLog' = <<>>
           /\ inflight = {} /\ inflight' = {}
           /\ files' = files]_vars

C25_Witness ==
    /\ pc = "halted"
    /\ err = [name |-> "KeyError", line |-> 613]
    /\ Has(hda, "results")
    /\ Has(hda, "headers")
    /\ ~Has(hda, "order_ids")
    /\ reqLog = <<>>


\* C21: against a well-behaved server no stage of the pipeline ends with an
\* error, and when download_data has returned every result descriptor has
\* its file in the download directory, holding the bytes streamed for it.
C21_PipelineCompletes ==
    /\ pc # "halted"
    /\ pc = "done" =>
        /\ Len(dlLog) = Len(Content)
        /\ \A k \in 1..Len(Content) :
             /\ Has(files, PathJoin(hda["download_dir_path"], Content[k].filename))
             /\ files[PathJoin(hda["download_dir_path"], Content[k].filename)] # <<>>
        /\ Content # <<>> => Len(files[DfPath]) = SumLen(received)


====
